---------------------------- MODULE Spec2Model ----------------------------
(***************************************************************************)
(* A model of the PhyVista simulation engine (Backend/phyvista_backend.py) *)
(* and of the parts of its HTTP layer (Backend/phyvista_api.py) that drive *)
(* a Simulation.                                                           *)
(*                                                                         *)
(* The engine computes in binary floating point.  The model computes in    *)
(* fixed point: every float field is an integer count of a fixed unit, and *)
(* a division truncates toward zero.  The units are                        *)
(*   angles in degrees (steering, target, error)   1/AngleScale degree     *)
(*   times                                         1/TimeScale second      *)
(*   controller gains, friction, gravity           1/GainScale             *)
(*   headings, sines, cosines, tangents            1/TrigScale             *)
(*   velocities                                    1/VelScale m/s          *)
(*   lengths (position, wheelbase, turn radius)    1/LenScale m            *)
(*   forces                                        1 N                     *)
(*   controller integral                 1/(AngleScale*TimeScale) degree s *)
(*   control signal                      1/AngleScale degree per second    *)
(***************************************************************************)
EXTENDS Integers, Sequences, FiniteSets, TLC

AngleScale == 100
TimeScale == 1000
GainScale == 100
TrigScale == 10000
VelScale == 10
LenScale == 1000

(***************************************************************************)
(* Bounds of the model and the inputs the callers supply.                  *)
(***************************************************************************)
\* the longest history a behaviour builds
MaxHistory == 4

\* target angles handed to run() and to the step endpoint (degrees * AngleScale)
Targets == {-1500, 0, 1500}
\* durations handed to run() (seconds * TimeScale), one of them rejected
Durations == {0, 15, 25, 200}
\* the time steps a Simulation is constructed with (0.01 s and 0.1 s)
TimeSteps == {10, 100}
\* the velocities a Simulation is constructed with
Velocities == {100}
\* Python's None and a value that is present
None == <<>>
Some(x) == <<x>>
\* the argument of reset(): None, a valid velocity, a rejected one
ResetVelocities == {None, Some(0), Some(-10)}
\* friction coefficients a PhysicsParameters is constructed with
Frictions == {0, 70}
\* maximum steering angles a PhysicsParameters is constructed with
MaxSteeringAngles == {1000}

(***************************************************************************)
(* Arithmetic helpers.                                                     *)
(***************************************************************************)
Abs(x) == IF x < 0 THEN -x ELSE x

\* np.sign
Sign(x) == IF x > 0 THEN 1 ELSE IF x < 0 THEN -1 ELSE 0

Min(a, b) == IF a <= b THEN a ELSE b

Max(a, b) == IF a >= b THEN a ELSE b

\* a / b of the float code, truncated toward zero to the unit of the result
Quot(a, b) ==
    IF (a >= 0) = (b > 0) THEN Abs(a) \div Abs(b) ELSE -(Abs(a) \div Abs(b))

\* a * b / c without an intermediate product beyond 32 bits (c > 0, b >= 0)
MulQuot(a, b, c) ==
    Sign(a) * ((Abs(a) \div c) * b + ((Abs(a) % c) * b) \div c)

\* np.clip(x, lo, hi) = minimum(maximum(x, lo), hi)
Clip(x, lo, hi) == Min(Max(x, lo), hi)

\* np.ceil(a / b) for b > 0, and for b < 0 (a > 0)
CeilDiv(a, b) == IF b > 0 THEN -((-a) \div b) ELSE -(a \div (-b))

\* floor of the square root
RECURSIVE SqrtIter(_, _, _)
SqrtIter(n, lo, hi) ==
    IF lo >= hi THEN lo
    ELSE LET mid == (lo + hi + 1) \div 2
         IN IF mid * mid <= n THEN SqrtIter(n, mid, hi)
            ELSE SqrtIter(n, lo, mid - 1)

SqrtBound == 46340

\* np.sqrt
Sqrt(n) == SqrtIter(n, 0, Min(n, SqrtBound))

(***************************************************************************)
(* Trigonometry in fixed point: angles in radians * TrigScale.             *)
(* An operator that needs an intermediate value more than once receives it *)
(* as a parameter from the operator above it.                              *)
(***************************************************************************)
Pi == 31416

\* np.radians of an angle in degrees * AngleScale
Radians(deg) == Quot(deg * Pi, 180 * AngleScale)

\* an angle reduced to [-Pi, Pi]; an angle already there is kept
WrapAngle(a) ==
    IF a >= -Pi /\ a <= Pi THEN a ELSE ((a + Pi) % (2 * Pi)) - Pi

\* the Taylor series of the sine in Horner form, x2 being x squared
SinHorner(x, x2) ==
    Quot(x * (TrigScale - ((x2 * (TrigScale - ((x2 * (TrigScale - ((x2 *
        (TrigScale - x2 \div 72)) \div TrigScale) \div 42)) \div TrigScale) \div 20))
        \div TrigScale) \div 6), TrigScale)

\* sine of an angle in [-Pi/2, Pi/2]
SinSeries(x) == SinHorner(x, (x * x) \div TrigScale)

\* the Taylor series of the cosine in Horner form, x2 being x squared
CosHorner(x2) ==
    Max(TrigScale - ((x2 * (TrigScale - ((x2 * (TrigScale - ((x2 *
        (TrigScale - x2 \div 56)) \div TrigScale) \div 30)) \div TrigScale) \div 12))
        \div TrigScale) \div 2, 0)

\* cosine of an angle in [-Pi/2, Pi/2]
CosSeries(x) == CosHorner((x * x) \div TrigScale)

\* sine of an angle in [-Pi, Pi]
SinWrapped(w) ==
    IF 2 * w > Pi THEN SinSeries(Pi - w)
    ELSE IF 2 * w < -Pi THEN SinSeries(-Pi - w)
    ELSE SinSeries(w)

\* cosine of an angle in [-Pi, Pi]
CosWrapped(w) ==
    IF 2 * w > Pi THEN -CosSeries(Pi - w)
    ELSE IF 2 * w < -Pi THEN -CosSeries(-Pi - w)
    ELSE CosSeries(w)

\* np.sin
Sin(a) == SinWrapped(WrapAngle(a))

\* np.cos
Cos(a) == CosWrapped(WrapAngle(a))

\* the float tangent of 90 degrees: finite and beyond every other tangent
HugeTan == 1000000000

\* sine over cosine
TanOf(s, c) == IF c = 0 THEN Sign(s) * HugeTan ELSE Quot(s * TrigScale, c)

\* np.tan
Tan(a) == TanOf(Sin(a), Cos(a))

(***************************************************************************)
(* PhysicsParameters                                                       *)
(***************************************************************************)
\* PhysicsParameters.__post_init__: the validation of a parameter record
ValidParameters(p) ==
    /\ p.mass > 0
    /\ p.gravity >= 0
    /\ p.friction_coefficient >= 0
    /\ p.wheelbase > 0
    /\ 0 <= p.max_steering_angle /\ p.max_steering_angle <= 90 * AngleScale

\* N = m g (newtons)
NormalForce(p) == Quot(p.mass * p.gravity, GainScale)

\* F_max = mu N (newtons)
MaxFrictionForce(p) == Quot(p.friction_coefficient * NormalForce(p), GainScale)

(***************************************************************************)
(* PIDController                                                           *)
(***************************************************************************)
\* the step compute() substitutes: 0.01 s
DefaultDt == 10

\* PIDController.__init__
NewController(kp, ki, kd, integral_limit, output_limit) ==
    [kp |-> kp, ki |-> ki, kd |-> kd,
     integral_limit |-> integral_limit, output_limit |-> output_limit,
     integral |-> 0, prev_error |-> 0, prev_time |-> 0, first_call |-> TRUE]

\* the time step taken as it comes, whatever its sign
EffectiveDt_Unchecked(c, time) ==
    IF c.first_call THEN DefaultDt ELSE time - c.prev_time

\* the time step compute() uses
EffectiveDt(c, time) ==
    IF c.first_call THEN DefaultDt
    ELSE IF time - c.prev_time <= 0 THEN DefaultDt ELSE time - c.prev_time

\* whether compute() warns of an invalid time step
ComputeWarns(c, time) == ~c.first_call /\ time - c.prev_time <= 0

\* the accumulator left as the sum made it
ClampIntegral_None(c, raw) == raw

\* the accumulator after the anti-windup clamp
ClampIntegral(c, raw) == Clip(raw, -c.integral_limit, c.integral_limit)

\* the derivative of the error over the step
Derivative(c, error, step) ==
    IF step > 0 THEN Quot((error - c.prev_error) * TimeScale, step) ELSE 0

\* the saturated sum of the three terms
Output(c, error, integral, derivative) ==
    Clip(Quot(c.kp * error, GainScale)
           + Quot(c.ki * integral, GainScale * TimeScale)
           + Quot(c.kd * derivative, GainScale),
         -c.output_limit, c.output_limit)

\* compute() once the error, the accumulator and the derivative are known
ComputeResult(c, error, time, integral, derivative) ==
    [controller |-> [c EXCEPT !.first_call = FALSE,
                              !.integral = integral,
                              !.prev_error = error,
                              !.prev_time = time],
     output |-> Output(c, error, integral, derivative),
     warned |-> ComputeWarns(c, time)]

\* compute() once the error and the effective step are known
ComputeStep(c, error, time, step) ==
    ComputeResult(c, error, time, ClampIntegral(c, c.integral + error * step),
                  Derivative(c, error, step))

\* PIDController.compute: the controller after the call and the value returned
Compute(c, target, current, time) ==
    ComputeStep(c, target - current, time, EffectiveDt(c, time))

\* a reset that keeps the previous time and does not await a first call
ControllerReset_KeepTime(c) ==
    [c EXCEPT !.integral = 0, !.prev_error = 0]

\* a reset that forgets the accumulator
ControllerReset_KeepIntegral(c) ==
    [c EXCEPT !.prev_error = 0, !.prev_time = 0, !.first_call = TRUE]

\* PIDController.reset
ControllerReset(c) ==
    [c EXCEPT !.integral = 0, !.prev_error = 0, !.prev_time = 0,
              !.first_call = TRUE]

\* PIDController.set_gains
SetGains(c, kp, ki, kd) == [c EXCEPT !.kp = kp, !.ki = ki, !.kd = kd]

(***************************************************************************)
(* VehicleDynamics                                                         *)
(***************************************************************************)
\* np.inf
Inf == 2000000000

\* np.isfinite
IsFinite(x) == x # Inf /\ x # -Inf

\* abs(x) < self._epsilon: 1e-8 is below one unit of every quantity
AbsBelowEpsilon(x) == x = 0

\* x < self._epsilon
BelowEpsilon(x) == x <= 0

\* x > self._epsilon
AboveEpsilon(x) == x > 0

\* the turn radius from the angle in radians and its tangent
TurnRadiusOf(p, angle_rad, tan_angle) ==
    IF AbsBelowEpsilon(angle_rad) THEN Inf
    ELSE IF AbsBelowEpsilon(tan_angle) THEN Inf
    ELSE Quot(p.wheelbase * TrigScale, tan_angle)

\* VehicleDynamics.calculate_turn_radius: R = L / tan(delta), signed
TurnRadius(p, steering_angle_deg) ==
    TurnRadiusOf(p, Radians(steering_angle_deg), Tan(Radians(steering_angle_deg)))

\* VehicleDynamics.calculate_centripetal_force: F = m v^2 / r, signed as r is
CentripetalForce(p, velocity, turn_radius) ==
    IF ~IsFinite(turn_radius) \/ AbsBelowEpsilon(turn_radius) THEN 0
    ELSE Quot(p.mass * velocity * velocity * (LenScale \div (VelScale * VelScale)),
              turn_radius)

\* the safe velocity on a turn of a given radius: sqrt(mu g |R|)
MaxSafeVelocityOf(p, turn_radius) ==
    IF ~IsFinite(turn_radius) THEN Inf
    ELSE IF MaxFrictionForce(p) <= 0 THEN 0
    ELSE Sqrt(MulQuot(MulQuot(Abs(turn_radius), p.friction_coefficient, GainScale),
                      p.gravity,
                      (GainScale * LenScale) \div (VelScale * VelScale)))

\* VehicleDynamics.calculate_max_safe_velocity
MaxSafeVelocity(p, steering_angle_deg) ==
    MaxSafeVelocityOf(p, TurnRadius(p, steering_angle_deg))

\* the slip verdict from the force required and the force available
SlipVerdict(required_force, max_force) ==
    IF BelowEpsilon(max_force)
    THEN IF BelowEpsilon(required_force)
         THEN [can_turn |-> TRUE, utilization |-> 0]
         ELSE [can_turn |-> FALSE, utilization |-> 100]
    ELSE [can_turn |-> required_force <= max_force,
          utilization |-> Min(MulQuot(required_force, 100, max_force), 100)]

\* VehicleDynamics.check_slip_condition
CheckSlipCondition(p, velocity, steering_angle_deg) ==
    SlipVerdict(CentripetalForce(p, velocity, TurnRadius(p, steering_angle_deg)),
                MaxFrictionForce(p))

\* the steering angle after the rate is applied, without the saturation
NewSteering_Unclipped(p, steering_angle, step, steering_input) ==
    steering_angle + Quot(steering_input * step, TimeScale)

\* the steering angle after the rate is applied and the result saturated
NewSteering(p, steering_angle, step, steering_input) ==
    Clip(steering_angle + Quot(steering_input * step, TimeScale),
         -p.max_steering_angle, p.max_steering_angle)

\* the angular velocity update_state selects, from the turn radius and the
\* slip verdict at the new steering angle
AngularVelocityOf(p, velocity, new_steering, turn_radius, can_turn) ==
    IF IsFinite(turn_radius) /\ ~AbsBelowEpsilon(turn_radius)
    THEN IF can_turn
         THEN Quot(velocity * ((LenScale * TrigScale) \div VelScale), turn_radius)
         ELSE IF AboveEpsilon(velocity)
              THEN Quot(p.friction_coefficient * p.gravity
                           * ((TrigScale * VelScale) \div (GainScale * GainScale)),
                        velocity) * Sign(new_steering)
              ELSE 0
    ELSE 0

\* the angular velocity at the new steering angle
AngularVelocity(p, velocity, new_steering) ==
    AngularVelocityOf(p, velocity, new_steering, TurnRadius(p, new_steering),
                      CheckSlipCondition(p, velocity, new_steering).can_turn)

\* np.arctan2(np.sin(h), np.cos(h))
NormalizeHeading(h) == WrapAngle(h)

\* the displacement along one axis over a step, from the cosine or the sine
\* of the midpoint heading
Displacement(velocity, step, direction) ==
    MulQuot(velocity * direction, step, (VelScale * TrigScale * TimeScale) \div LenScale)

\* an integration with the cosine and the sine exchanged
Integrate_SwappedAxes(st, step, new_steering, angular_velocity, mid_heading) ==
    [time |-> st.time + step,
     x |-> st.x + Displacement(st.velocity, step, Sin(mid_heading)),
     y |-> st.y + Displacement(st.velocity, step, Cos(mid_heading)),
     velocity |-> st.velocity,
     heading |-> NormalizeHeading(st.heading + MulQuot(angular_velocity, step, TimeScale)),
     steering_angle |-> new_steering,
     angular_velocity |-> angular_velocity]

\* the new state once the steering angle and the angular velocity are known
Integrate(st, step, new_steering, angular_velocity, mid_heading) ==
    [time |-> st.time + step,
     x |-> st.x + Displacement(st.velocity, step, Cos(mid_heading)),
     y |-> st.y + Displacement(st.velocity, step, Sin(mid_heading)),
     velocity |-> st.velocity,
     heading |-> NormalizeHeading(st.heading + MulQuot(angular_velocity, step, TimeScale)),
     steering_angle |-> new_steering,
     angular_velocity |-> angular_velocity]

\* the new state once the angular velocity is known
Turn(st, step, new_steering, angular_velocity) ==
    Integrate(st, step, new_steering, angular_velocity,
              st.heading + MulQuot(angular_velocity, step, 2 * TimeScale))

\* the new state once the steering angle is known
Steer(p, st, step, new_steering) ==
    Turn(st, step, new_steering, AngularVelocity(p, st.velocity, new_steering))

\* an update that writes the new fields into the object it was handed and
\* returns that object
UpdateState_InPlace(p, st, step, steering_input) ==
    IF step <= 0 THEN [ok |-> FALSE, state |-> st, input |-> st]
    ELSE [ok |-> TRUE,
          state |-> Steer(p, st, step,
                          NewSteering(p, st.steering_angle, step, steering_input)),
          input |-> Steer(p, st, step,
                          NewSteering(p, st.steering_angle, step, steering_input))]

\* VehicleDynamics.update_state: a ValueError for dt <= 0, else the new state,
\* a VehicleState constructed at the return. input is the argument object
\* once the call is over: the method reads its fields and assigns none.
UpdateState(p, st, step, steering_input) ==
    IF step <= 0 THEN [ok |-> FALSE, state |-> st, input |-> st]
    ELSE [ok |-> TRUE,
          state |-> Steer(p, st, step,
                          NewSteering(p, st.steering_angle, step, steering_input)),
          input |-> st]

(***************************************************************************)
(* Simulation                                                              *)
(***************************************************************************)
VARIABLES
    params,            \* Simulation.params, shared with Simulation.dynamics
    controller,        \* Simulation.controller
    dt,                \* Simulation.dt
    initial_velocity,  \* Simulation.initial_velocity
    state,             \* Simulation.state
    target_angle,      \* Simulation.target_angle
    history,           \* Simulation.history
    current_time,      \* Simulation.current_time
    pc,                \* where the caller is: "idle", or "run" inside run()'s loop
    duration,          \* run(): the duration it was called with
    entry_len,         \* run(): len(self.history) when it was entered
    steps,             \* run(): the number of iterations of the loop
    results,           \* run(): the diagnostics collected so far
    ret,               \* the outcome of the last call: what it was, raised or returned
    aliases,           \* the indices of the history entries that are the very
                       \* object Simulation.state refers to
    nfail              \* the number of step() calls that failed so far

vars == <<params, controller, dt, initial_velocity, state, target_angle,
          history, current_time, pc, duration, entry_len, steps, results, ret,
          aliases, nfail>>

\* the variables of a call of run() in progress
frame == <<duration, entry_len, steps, results>>

\* the failed steps a behaviour holds at most
MaxFailures == 2

\* the VehicleState of Simulation.__init__ and Simulation.reset
InitialState(velocity) ==
    [time |-> 0, x |-> 0, y |-> 0, velocity |-> velocity, heading |-> 0,
     steering_angle |-> 0, angular_velocity |-> 0]

\* VehicleState.copy
StateCopy(st) ==
    [time |-> st.time, x |-> st.x, y |-> st.y, velocity |-> st.velocity,
     heading |-> st.heading, steering_angle |-> st.steering_angle,
     angular_velocity |-> st.angular_velocity]

\* np.degrees of an angle in radians * TrigScale, in degrees * AngleScale
Degrees(rad) == MulQuot(rad, 180 * AngleScale, Pi)

\* VehicleState.to_dict
ToDict(st) ==
    [time |-> st.time, position_x |-> st.x, position_y |-> st.y,
     velocity |-> st.velocity,
     heading_deg |-> Degrees(st.heading), heading_rad |-> st.heading,
     steering_angle |-> st.steering_angle,
     angular_velocity_rad |-> st.angular_velocity,
     angular_velocity_deg |-> Degrees(st.angular_velocity)]

\* x if np.isfinite(x) else None
FiniteOrNone(x) == IF IsFinite(x) THEN Some(x) ELSE None

\* the record step() returns, from the slip verdict and the turn radius at
\* the new state
DiagnosticsOf(p, c, st, target, control_signal, slip, turn_radius) ==
    [state |-> ToDict(st),
     can_turn |-> slip.can_turn,
     friction_utilization |-> slip.utilization,
     turn_radius |-> FiniteOrNone(turn_radius),
     normal_force |-> NormalForce(p),
     max_friction_force |-> MaxFrictionForce(p),
     centripetal_force_required |-> CentripetalForce(p, st.velocity, turn_radius),
     max_safe_velocity |-> FiniteOrNone(MaxSafeVelocity(p, st.steering_angle)),
     pid_error |-> target - st.steering_angle,
     pid_integral |-> c.integral,
     control_signal |-> control_signal]

\* the record step() returns, computed from the new state
Diagnostics(p, c, st, target, control_signal) ==
    DiagnosticsOf(p, c, st, target, control_signal,
                  CheckSlipCondition(p, st.velocity, st.steering_angle),
                  TurnRadius(p, st.steering_angle))

\* step() after update_state: the new state is stored, a copy of it is
\* appended and the diagnostics are computed, or the exception propagates
StepResult(p, target, pid, upd) ==
    [ok |-> upd.ok,
     controller |-> pid.controller,
     state |-> upd.state,
     entry |-> StateCopy(upd.state),
     diag |-> IF upd.ok
              THEN Some(Diagnostics(p, pid.controller, upd.state, target, pid.output))
              ELSE None]

\* step() after the controller call
StepDynamics(p, st, step, target, pid) ==
    StepResult(p, target, pid, UpdateState(p, st, step, pid.output))

\* Simulation.step: the controller is called first, then the dynamics
SimStep(p, c, st, step, target) ==
    StepDynamics(p, st, step, target, Compute(c, target, st.steering_angle, st.time))

\* what a call returned
Returned(op, args, value) ==
    [op |-> op, args |-> args, raised |-> FALSE, error |-> "", value |-> value]

\* the exception a call raised
Raised(op, args, error) ==
    [op |-> op, args |-> args, raised |-> TRUE, error |-> error, value |-> None]

\* the controller the HTTP layer and the examples construct: default limits of
\* 100 degree seconds and 500 degrees per second
DefaultController ==
    NewController(50, 10, 20, 100 * AngleScale * TimeScale, 500 * AngleScale)

\* Simulation.__init__ on validated parameters and a fresh controller
Init ==
    /\ params \in [mass : {500}, gravity : {162}, friction_coefficient : Frictions,
                   wheelbase : {2500}, max_steering_angle : MaxSteeringAngles]
    /\ ValidParameters(params)
    /\ controller = DefaultController
    /\ dt \in TimeSteps
    /\ dt > 0
    /\ initial_velocity \in Velocities
    /\ initial_velocity >= 0
    /\ state = InitialState(initial_velocity)
    /\ target_angle = 0
    /\ history = <<>>
    /\ current_time = 0
    /\ pc = "idle"
    /\ duration = 0
    /\ entry_len = 0
    /\ steps = 0
    /\ results = <<>>
    /\ ret = Returned("init", <<>>, None)
    /\ aliases = {}
    /\ nfail = 0

\* a copy() that hands back the object it was called on
CopyReturnsSelf_Alias == TRUE

\* whether VehicleState.copy returns the object it is called on: it constructs
\* a new VehicleState around a copy of the position array
CopyReturnsSelf == FALSE

\* a step() that keeps only the newest entry of the history
DoStep_Replace(r) ==
    /\ controller' = r.controller
    /\ state' = r.state
    /\ IF r.ok
       THEN /\ current_time' = r.state.time
            /\ history' = <<r.entry>>
            /\ aliases' = IF CopyReturnsSelf THEN {1} ELSE {}
            /\ nfail' = nfail
       ELSE /\ UNCHANGED <<current_time, history, aliases>>
            /\ nfail' = nfail + 1

\* the effect of one call of step() on the simulation
DoStep(r) ==
    /\ controller' = r.controller
    /\ state' = r.state
    /\ IF r.ok
       THEN /\ current_time' = r.state.time
            /\ history' = Append(history, r.entry)
            /\ aliases' = IF CopyReturnsSelf THEN {Len(history) + 1} ELSE {}
            /\ nfail' = nfail
       ELSE /\ UNCHANGED <<current_time, history, aliases>>
            /\ nfail' = nfail + 1

\* whether the model lets one more step() be called
StepAllowed ==
    /\ Len(history) < MaxHistory
    /\ dt > 0 \/ nfail < MaxFailures

\* a call of step() that returns its diagnostics or raises
StepCall(r) ==
    /\ DoStep(r)
    /\ ret' = IF r.ok THEN Returned("step", <<>>, r.diag)
              ELSE Raised("step", <<>>, "ValueError")

\* a call of Simulation.step()
Step ==
    /\ pc = "idle"
    /\ StepAllowed
    /\ StepCall(SimStep(params, controller, state, dt, target_angle))
    /\ UNCHANGED <<params, dt, initial_velocity, target_angle, pc, frame>>

\* the step endpoint with a target_angle in the request: step_simulation
StepSimulation(target) ==
    /\ pc = "idle"
    /\ StepAllowed
    /\ -90 * AngleScale <= target /\ target <= 90 * AngleScale
    /\ target_angle' = target
    /\ StepCall(SimStep(params, controller, state, dt, target))
    /\ UNCHANGED <<params, dt, initial_velocity, pc, frame>>

\* the iterations counted by truncation: int(duration / self.dt)
RunSteps_Floor(dur, step) == Quot(dur, step)

\* the number of iterations of run(): int(np.ceil(duration / self.dt))
RunSteps(dur, step) == CeilDiv(dur, step)

\* a run() that stores the target before it validates the duration
RunBegin_TargetFirst(dur, target) ==
    /\ pc = "idle"
    /\ target_angle' = target
    /\ IF dur <= 0
       THEN /\ ret' = Raised("run", <<dur, target>>, "ValueError")
            /\ UNCHANGED <<pc, frame>>
       ELSE IF dt = 0
       THEN /\ ret' = Raised("run", <<dur, target>>, "ZeroDivisionError")
            /\ UNCHANGED <<pc, frame>>
       ELSE /\ Len(history) + RunSteps(dur, dt) <= MaxHistory
            /\ IF RunSteps(dur, dt) <= 0
               THEN /\ ret' = Returned("run", <<dur, target>>, <<>>)
                    /\ UNCHANGED <<pc, frame>>
               ELSE /\ pc' = "run"
                    /\ duration' = dur
                    /\ entry_len' = Len(history)
                    /\ steps' = RunSteps(dur, dt)
                    /\ results' = <<>>
                    /\ ret' = ret
    /\ UNCHANGED <<params, controller, dt, initial_velocity, state, history,
                   current_time, aliases, nfail>>

\* Simulation.run up to its loop: the checks, the target and the step count
RunBegin(dur, target) ==
    /\ pc = "idle"
    /\ IF dur <= 0
       THEN /\ ret' = Raised("run", <<dur, target>>, "ValueError")
            /\ UNCHANGED <<target_angle, pc, frame>>
       ELSE IF dt = 0
       THEN /\ target_angle' = target
            /\ ret' = Raised("run", <<dur, target>>, "ZeroDivisionError")
            /\ UNCHANGED <<pc, frame>>
       ELSE /\ Len(history) + RunSteps(dur, dt) <= MaxHistory
            /\ target_angle' = target
            /\ IF RunSteps(dur, dt) <= 0
               THEN /\ ret' = Returned("run", <<dur, target>>, <<>>)
                    /\ UNCHANGED <<pc, frame>>
               ELSE /\ pc' = "run"
                    /\ duration' = dur
                    /\ entry_len' = Len(history)
                    /\ steps' = RunSteps(dur, dt)
                    /\ results' = <<>>
                    /\ ret' = ret
    /\ UNCHANGED <<params, controller, dt, initial_velocity, state, history,
                   current_time, aliases, nfail>>

\* a loop that lets the exception of a failed iteration out of run()
RunCollect_Reraise(r, collected) ==
    IF ~r.ok \/ Len(collected) = steps
    THEN /\ pc' = "idle"
         /\ ret' = IF r.ok THEN Returned("run", <<duration, target_angle>>, collected)
                   ELSE Raised("run", <<duration, target_angle>>, "ValueError")
         /\ duration' = 0
         /\ entry_len' = 0
         /\ steps' = 0
         /\ results' = <<>>
    ELSE /\ pc' = "run"
         /\ results' = collected
         /\ UNCHANGED <<ret, duration, entry_len, steps>>

\* the end of an iteration: the loop goes on, or run() returns what it collected
\* (after the last iteration, or at the break of a failed one)
RunCollect(r, collected) ==
    IF ~r.ok \/ Len(collected) = steps
    THEN /\ pc' = "idle"
         /\ ret' = Returned("run", <<duration, target_angle>>, collected)
         /\ duration' = 0
         /\ entry_len' = 0
         /\ steps' = 0
         /\ results' = <<>>
    ELSE /\ pc' = "run"
         /\ results' = collected
         /\ UNCHANGED <<ret, duration, entry_len, steps>>

\* one iteration of run()'s loop around step()
RunIteration(r) ==
    /\ DoStep(r)
    /\ RunCollect(r, IF r.ok THEN results \o r.diag ELSE results)

\* one iteration of run()'s loop
RunStep ==
    /\ pc = "run"
    /\ RunIteration(SimStep(params, controller, state, dt, target_angle))
    /\ UNCHANGED <<params, dt, initial_velocity, target_angle>>

\* Simulation.reset
Reset(velocity_arg) ==
    /\ pc = "idle"
    /\ LET velocity == IF velocity_arg # None THEN velocity_arg[1] ELSE initial_velocity
       IN IF velocity < 0
          THEN /\ ret' = Raised("reset", <<velocity_arg>>, "ValueError")
               /\ UNCHANGED <<state, controller, history, current_time, target_angle,
                              aliases>>
          ELSE /\ state' = InitialState(velocity)
               /\ controller' = ControllerReset(controller)
               /\ history' = <<>>
               /\ aliases' = {}
               /\ current_time' = 0
               /\ target_angle' = 0
               /\ ret' = Returned("reset", <<velocity_arg>>, None)
    /\ UNCHANGED <<params, dt, initial_velocity, pc, frame, nfail>>

Next ==
    \/ Step
    \/ \E target \in Targets : StepSimulation(target)
    \/ \E dur \in Durations, target \in Targets : RunBegin(dur, target)
    \/ RunStep
    \/ \E v \in ResetVelocities : Reset(v)

Spec == Init /\ [][Next]_vars

(***************************************************************************)
(* The time step reassigned.  Simulation.dt is a plain attribute that      *)
(* update_state validates again on every step; a holder of the instance    *)
(* that assigns it a value <= 0 is what makes step() fail, between two     *)
(* calls or between two iterations of run()'s loop.                        *)
(***************************************************************************)
\* the values assigned to Simulation.dt after construction
FaultTimeSteps == {0, -10}

\* an assignment to Simulation.dt
SetDt(d) ==
    /\ dt # d
    /\ dt' = d
    /\ UNCHANGED <<params, controller, initial_velocity, state, target_angle,
                   history, current_time, pc, frame, ret, aliases, nfail>>

\* one simulation for the behaviours with a reassigned time step
InitFault ==
    /\ Init
    /\ params.friction_coefficient = 70
    /\ dt = 10

NextFault ==
    \/ Next
    \/ \E d \in FaultTimeSteps : SetDt(d)

SpecFault == InitFault /\ [][NextFault]_vars

(***************************************************************************)
(* A PIDController driven directly, with any targets, currents and times.  *)
(***************************************************************************)
\* the integral limits a controller is constructed with (degree seconds)
IntegralLimits == {0, 20000, 60000}
\* the arguments of compute()
PIDTargets == {-1500, 0, 1500}
PIDCurrents == {0, 1000}
PIDTimes == {0, 10, 30}
\* the gains handed to set_gains()
PIDGains == {<<50, 10, 20>>, <<100, 0, 0>>}

InitPID ==
    /\ params = [mass |-> 500, gravity |-> 162, friction_coefficient |-> 70,
                 wheelbase |-> 2500, max_steering_angle |-> 4500]
    /\ controller \in {NewController(50, 10, 20, limit, 500 * AngleScale) :
                         limit \in IntegralLimits}
    /\ dt = 10
    /\ initial_velocity = 100
    /\ state = InitialState(initial_velocity)
    /\ target_angle = 0
    /\ history = <<>>
    /\ current_time = 0
    /\ pc = "idle"
    /\ duration = 0
    /\ entry_len = 0
    /\ steps = 0
    /\ results = <<>>
    /\ ret = Returned("init", <<>>, None)
    /\ aliases = {}
    /\ nfail = 0

\* the controller and the caller after a call of compute()
ComputeCall(r, args) ==
    /\ controller' = r.controller
    /\ ret' = [Returned("compute", args, Some(r.output)) EXCEPT !.error =
                 IF r.warned THEN "warning" ELSE ""]

\* a call of PIDController.compute
PIDCompute(target, current, time) ==
    /\ ComputeCall(Compute(controller, target, current, time),
                   <<target, current, time>>)
    /\ UNCHANGED <<params, dt, initial_velocity, state, target_angle, history,
                   current_time, pc, frame, aliases, nfail>>

\* a call of PIDController.reset
PIDReset ==
    /\ controller' = ControllerReset(controller)
    /\ ret' = Returned("controller_reset", <<>>, None)
    /\ UNCHANGED <<params, dt, initial_velocity, state, target_angle, history,
                   current_time, pc, frame, aliases, nfail>>

\* a call of PIDController.set_gains
PIDSetGains(g) ==
    /\ controller' = SetGains(controller, g[1], g[2], g[3])
    /\ ret' = Returned("set_gains", g, None)
    /\ UNCHANGED <<params, dt, initial_velocity, state, target_angle, history,
                   current_time, pc, frame, aliases, nfail>>

NextPID ==
    \/ \E target \in PIDTargets, current \in PIDCurrents, time \in PIDTimes :
          PIDCompute(target, current, time)
    \/ PIDReset
    \/ \E g \in PIDGains : PIDSetGains(g)

SpecPID == InitPID /\ [][NextPID]_vars

(***************************************************************************)
(* Simulation.get_summary_statistics: a read of history and target_angle.  *)
(* Lengths in metres * LenScale, errors in degrees * AngleScale, times in  *)
(* seconds * TimeScale, the overshoot in percent.                          *)
(***************************************************************************)
\* np.sqrt(dx**2 + dy**2)
Norm(dx, dy) == Sqrt(dx * dx + dy * dy)

\* the sum of the segments between history[i-1] and history[i], from the
\* second entry on: the loop over range(1, len(self.history))
RECURSIVE PathLengthFrom(_, _)
PathLengthFrom(h, i) ==
    IF i > Len(h) THEN 0
    ELSE Norm(h[i].x - h[i - 1].x, h[i].y - h[i - 1].y) + PathLengthFrom(h, i + 1)

\* path_length
PathLength(h) == PathLengthFrom(h, 2)

\* total_distance: np.linalg.norm(self.history[-1].position)
TotalDistance(h) == Norm(h[Len(h)].x, h[Len(h)].y)

\* errors: self.target_angle - s.steering_angle for each entry
Errors(h, target) == [i \in 1..Len(h) |-> target - h[i].steering_angle]

\* abs_errors
AbsErrors(h, target) == [i \in 1..Len(h) |-> Abs(target - h[i].steering_angle)]

\* steady_state_idx = max(1, int(0.9 * len(errors))), an index counted from 0
SteadyStateIndex(n) == Max(1, (9 * n) \div 10)

\* abs_errors[steady_state_idx:]
SteadyStateWindow(h, target) ==
    SubSeq(AbsErrors(h, target), SteadyStateIndex(Len(h)) + 1, Len(h))

RECURSIVE SumFrom(_, _)
SumFrom(s, i) == IF i > Len(s) THEN 0 ELSE s[i] + SumFrom(s, i + 1)

\* np.mean: nan on an empty array, which is None here
Mean(s) == IF s = <<>> THEN None ELSE Some(Quot(SumFrom(s, 1), Len(s)))

RECURSIVE MaxFrom(_, _)
MaxFrom(s, i) == IF i >= Len(s) THEN s[Len(s)] ELSE Max(s[i], MaxFrom(s, i + 1))

RECURSIVE MinFrom(_, _)
MinFrom(s, i) == IF i >= Len(s) THEN s[Len(s)] ELSE Min(s[i], MinFrom(s, i + 1))

\* np.sqrt(np.mean(errors**2))
RootMeanSquare(s) == Sqrt(Quot(SumFrom([i \in 1..Len(s) |-> s[i] * s[i]], 1), Len(s)))

\* the threshold of _calculate_settling_time: 0.5 degrees
SettlingThreshold == 50

\* a search that stops at the first error within the threshold, whatever the
\* later ones are
RECURSIVE SettlingFrom_FirstWithin(_, _, _)
SettlingFrom_FirstWithin(h, errors, i) ==
    IF i > Len(errors) THEN None
    ELSE IF Abs(errors[i]) <= SettlingThreshold
    THEN Some(h[i].time)
    ELSE SettlingFrom_FirstWithin(h, errors, i + 1)

RECURSIVE SettlingFrom(_, _, _)
SettlingFrom(h, errors, i) ==
    IF i > Len(errors) THEN None
    ELSE IF \A j \in i..Len(errors) : Abs(errors[j]) <= SettlingThreshold
    THEN Some(h[i].time)
    ELSE SettlingFrom(h, errors, i + 1)

\* Simulation._calculate_settling_time: the time of the first entry from which
\* the error stays within the threshold
SettlingTime(h, errors) == SettlingFrom(h, errors, 1)

\* the overshoot of the extreme value over the target, in percent
OvershootOf(extreme, target) ==
    Max(0, MulQuot(Abs(extreme) - Abs(target), 100, Abs(target)))

\* Simulation._calculate_overshoot
Overshoot(values, target) ==
    IF values = <<>> \/ target = 0 THEN 0
    ELSE OvershootOf(IF target > 0 THEN MaxFrom(values, 1) ELSE MinFrom(values, 1),
                     target)

\* the record of an empty history
EmptyStatistics ==
    [total_time |-> 0, total_steps |-> 0, total_distance |-> 0,
     final_position |-> <<0, 0>>, final_heading_deg |-> 0,
     mean_steering_error |-> Some(0), max_steering_error |-> 0,
     rms_steering_error |-> 0, settling_time |-> None, overshoot |-> 0,
     steady_state_error |-> Some(0)]

\* the record of a non-empty history
HistoryStatistics(h, target, last) ==
    [total_time |-> last.time, total_steps |-> Len(h),
     total_distance |-> TotalDistance(h),
     path_length |-> PathLength(h),
     final_position |-> <<last.x, last.y>>,
     final_heading_deg |-> Degrees(last.heading),
     final_steering_angle |-> last.steering_angle,
     mean_steering_error |-> Mean(AbsErrors(h, target)),
     max_steering_error |-> MaxFrom(AbsErrors(h, target), 1),
     rms_steering_error |-> RootMeanSquare(Errors(h, target)),
     settling_time |-> SettlingTime(h, Errors(h, target)),
     overshoot |-> Overshoot([i \in 1..Len(h) |-> h[i].steering_angle], target),
     steady_state_error |-> Mean(SteadyStateWindow(h, target))]

\* Simulation.get_summary_statistics
SummaryStatistics(h, target) ==
    IF h = <<>> THEN EmptyStatistics ELSE HistoryStatistics(h, target, h[Len(h)])

(***************************************************************************)
(* The HTTP layer's update of the velocity: update_parameters assigns the   *)
(* velocity of the request to the live state object in place.              *)
(***************************************************************************)
\* the velocities of the requests (m/s * VelScale), one of them rejected
UpdateVelocities == {50, -10}

\* an assignment to the velocity attribute of the object Simulation.state
\* refers to: every history entry that is this object shows it too
AssignVelocity(v) ==
    /\ state' = [state EXCEPT !.velocity = v]
    /\ history' = [i \in 1..Len(history) |->
                     IF i \in aliases THEN [history[i] EXCEPT !.velocity = v]
                     ELSE history[i]]

\* update_parameters with a velocity in the request: validated, then assigned
UpdateVelocity(v) ==
    /\ pc = "idle"
    /\ IF v < 0
       THEN /\ ret' = Raised("update_params", <<v>>, "ValueError")
            /\ UNCHANGED <<state, history>>
       ELSE /\ AssignVelocity(v)
            /\ ret' = Returned("update_params", <<v>>, None)
    /\ UNCHANGED <<params, controller, dt, initial_velocity, target_angle,
                   current_time, pc, frame, aliases, nfail>>

\* one simulation for the behaviours with velocity updates
InitAPI ==
    /\ Init
    /\ params.friction_coefficient = 70
    /\ dt = 100

NextAPI ==
    \/ Next
    \/ \E v \in UpdateVelocities : UpdateVelocity(v)

SpecAPI == InitAPI /\ [][NextAPI]_vars

(***************************************************************************)
(* The HTTP layer's update_parameters as a whole: the fields of the        *)
(* request are validated and assigned one after the other, in the order    *)
(* velocity, mass, friction_coefficient, gravity, pid_gains.  A field is   *)
(* None when the request does not hold it.                                 *)
(***************************************************************************)
\* a request body, its pid_gains given apart
UpdateRequest(velocity, mass, friction, gravity, gains) ==
    [velocity |-> velocity, mass |-> mass, friction_coefficient |-> friction,
     gravity |-> gravity, pid_gains |-> gains]

\* the pid_gains object of a request
PidGains(kp, ki, kd) == Some([kp |-> kp, ki |-> ki, kd |-> kd])

\* the request bodies: the empty one, accepted ones, and ones whose first
\* invalid field follows valid ones
UpdateRequests ==
    { UpdateRequest(None, None, None, None, None),
      UpdateRequest(Some(50), None, None, None, None),
      UpdateRequest(None, Some(600), None, None, PidGains(Some(70), None, None)),
      UpdateRequest(Some(50), Some(-1), None, None, None),
      UpdateRequest(None, Some(600), Some(300), None, None),
      UpdateRequest(None, None, Some(50), Some(0), None),
      UpdateRequest(None, Some(600), None, None, PidGains(Some(70), Some(-1), None)) }

\* if not data
EmptyRequest(data) ==
    /\ data.velocity = None
    /\ data.mass = None
    /\ data.friction_coefficient = None
    /\ data.gravity = None
    /\ data.pid_gains = None

\* where the handler stands: whether it is still running, the velocity it
\* has assigned to the state if any, and the parameters and the controller
UpdateStart(p, c) ==
    [ok |-> TRUE, velocity |-> None, params |-> p, controller |-> c]

\* the velocity of the request: validate_positive_number(allow_zero=True),
\* then sim.state.velocity = velocity
UpdateVelocityField(s, data) ==
    IF data.velocity = None THEN s
    ELSE IF data.velocity[1] < 0 THEN [s EXCEPT !.ok = FALSE]
    ELSE [s EXCEPT !.velocity = data.velocity]

\* the mass of the request: validate_positive_number, then sim.params.mass
UpdateMass(s, data) ==
    IF ~s.ok \/ data.mass = None THEN s
    ELSE IF data.mass[1] <= 0 THEN [s EXCEPT !.ok = FALSE]
    ELSE [s EXCEPT !.params.mass = data.mass[1]]

\* the friction coefficient of the request: validate_range(0.0, 2.0)
UpdateFriction(s, data) ==
    IF ~s.ok \/ data.friction_coefficient = None THEN s
    ELSE IF data.friction_coefficient[1] < 0
              \/ data.friction_coefficient[1] > 2 * GainScale
    THEN [s EXCEPT !.ok = FALSE]
    ELSE [s EXCEPT !.params.friction_coefficient = data.friction_coefficient[1]]

\* the gravity of the request, a number: parse_gravity
UpdateGravity(s, data) ==
    IF ~s.ok \/ data.gravity = None THEN s
    ELSE IF data.gravity[1] <= 0 THEN [s EXCEPT !.ok = FALSE]
    ELSE [s EXCEPT !.params.gravity = data.gravity[1]]

\* gains.get(name, current)
GainOrCurrent(gain, current) == IF gain = None THEN current ELSE gain[1]

\* the three gains validated, then controller.set_gains
UpdateGainsTo(s, kp, ki, kd) ==
    IF kp < 0 \/ ki < 0 \/ kd < 0 THEN [s EXCEPT !.ok = FALSE]
    ELSE [s EXCEPT !.controller = SetGains(s.controller, kp, ki, kd)]

\* the pid_gains of the request
UpdateGains(s, data) ==
    IF ~s.ok \/ data.pid_gains = None THEN s
    ELSE UpdateGainsTo(s, GainOrCurrent(data.pid_gains[1].kp, s.controller.kp),
                          GainOrCurrent(data.pid_gains[1].ki, s.controller.ki),
                          GainOrCurrent(data.pid_gains[1].kd, s.controller.kd))

\* update_parameters on a non-empty request, field after field
UpdateOutcome(p, c, data) ==
    UpdateGains(
        UpdateGravity(
            UpdateFriction(
                UpdateMass(UpdateVelocityField(UpdateStart(p, c), data), data),
                data),
            data),
        data)

\* what the handler leaves behind, and its response: 200, or the 400 that
\* handle_errors makes of the ValueError
UpdateApply(data, out) ==
    /\ IF out.velocity = None THEN UNCHANGED <<state, history>>
       ELSE AssignVelocity(out.velocity[1])
    /\ params' = out.params
    /\ controller' = out.controller
    /\ ret' = IF out.ok THEN Returned("update_params", <<data>>, None)
              ELSE Raised("update_params", <<data>>, "ValueError")

\* the update_params endpoint
UpdateParameters(data) ==
    /\ pc = "idle"
    /\ IF EmptyRequest(data)
       THEN /\ ret' = Raised("update_params", <<data>>, "BadRequest")
            /\ UNCHANGED <<state, history, params, controller>>
       ELSE UpdateApply(data, UpdateOutcome(params, controller, data))
    /\ UNCHANGED <<dt, initial_velocity, target_angle, current_time, pc, frame,
                   aliases, nfail>>

\* steps, resets and updates of the parameters on one simulation
NextParams ==
    \/ Step
    \/ \E target \in Targets : StepSimulation(target)
    \/ Reset(None)
    \/ \E data \in UpdateRequests : UpdateParameters(data)

SpecParams == InitAPI /\ [][NextParams]_vars

(***************************************************************************)
(* A vehicle whose steering may reach 90 degrees, stepped at 0.2 s: the    *)
(* saturated controller output of 500 degrees per second carries the       *)
(* steering angle to the limit in one step.                                *)
(***************************************************************************)
\* target angles up to the largest the step endpoint accepts
WideTargets == {-9000, 0, 9000}

InitWide ==
    /\ params = [mass |-> 500, gravity |-> 162, friction_coefficient |-> 70,
                 wheelbase |-> 2500, max_steering_angle |-> 90 * AngleScale]
    /\ ValidParameters(params)
    /\ controller = DefaultController
    /\ dt = 200
    /\ initial_velocity = 100
    /\ state = InitialState(initial_velocity)
    /\ target_angle = 0
    /\ history = <<>>
    /\ current_time = 0
    /\ pc = "idle"
    /\ duration = 0
    /\ entry_len = 0
    /\ steps = 0
    /\ results = <<>>
    /\ ret = Returned("init", <<>>, None)
    /\ aliases = {}
    /\ nfail = 0

NextWide ==
    \/ Step
    \/ \E target \in WideTargets : StepSimulation(target)
    \/ \E dur \in Durations, target \in WideTargets : RunBegin(dur, target)
    \/ RunStep
    \/ \E v \in ResetVelocities : Reset(v)

SpecWide == InitWide /\ [][NextWide]_vars

(***************************************************************************)
(* A vehicle whose first step at full lock turns it through half a turn:   *)
(* 10 m/s on a wheelbase of 3.183 m at 45 degrees of steering turns at     *)
(* 3.1416 rad/s, and the time step is one second.                          *)
(***************************************************************************)
InitHalfTurn ==
    /\ params = [mass |-> 500, gravity |-> 162, friction_coefficient |-> 70,
                 wheelbase |-> 3183, max_steering_angle |-> 45 * AngleScale]
    /\ ValidParameters(params)
    /\ controller = DefaultController
    /\ dt = 1000
    /\ initial_velocity = 100
    /\ state = InitialState(initial_velocity)
    /\ target_angle = 0
    /\ history = <<>>
    /\ current_time = 0
    /\ pc = "idle"
    /\ duration = 0
    /\ entry_len = 0
    /\ steps = 0
    /\ results = <<>>
    /\ ret = Returned("init", <<>>, None)
    /\ aliases = {}
    /\ nfail = 0

SpecHalfTurn == InitHalfTurn /\ [][NextWide]_vars

(***************************************************************************)
(* A simulation that is only ever driven with a target angle of 0.         *)
(***************************************************************************)
NextStraight ==
    \/ Step
    \/ \E dur \in Durations : RunBegin(dur, 0)
    \/ RunStep
    \/ \E v \in ResetVelocities : Reset(v)

SpecStraight == Init /\ [][NextStraight]_vars

\* the outcome of the last of n consecutive calls of step() in run()'s loop,
\* which ends at a failed one; r is the outcome of the call before them
RECURSIVE StepsFrom(_, _, _, _, _)
StepsFrom(p, r, step, target, n) ==
    IF n = 0 \/ ~r.ok THEN r
    ELSE StepsFrom(p, SimStep(p, r.controller, r.state, step, target),
                   step, target, n - 1)

\* the state a fresh simulation is in after run(duration, target) without a
\* failed step
StateAfterRun(p, c, velocity, step, dur, target) ==
    StepsFrom(p, [ok |-> TRUE, controller |-> c, state |-> InitialState(velocity)],
              step, target, RunSteps(dur, step)).state

\* run()'s loop as a function: the diagnostics collected by n more iterations
\* after the call whose outcome is r, the loop ending at a failed step
RECURSIVE RunLoop(_, _, _, _, _, _)

\* the end of an iteration whose step() had the outcome r
RunLoopCollect(p, r, step, target, n, collected) ==
    IF ~r.ok THEN collected
    ELSE RunLoop(p, r, step, target, n, collected \o r.diag)

RunLoop(p, r, step, target, n, collected) ==
    IF n = 0 THEN collected
    ELSE RunLoopCollect(p, SimStep(p, r.controller, r.state, step, target),
                        step, target, n - 1, collected)

\* what run(dur, target) returns on a Simulation just constructed around
\* PIDController(kp, ki, kd) with the gains and limits of c
FreshRun(p, c, velocity, step, dur, target) ==
    RunLoop(p, [ok |-> TRUE,
                controller |-> NewController(c.kp, c.ki, c.kd, c.integral_limit,
                                             c.output_limit),
                state |-> InitialState(velocity)],
            step, target, RunSteps(dur, step), <<>>)

(***************************************************************************)
(* Properties                                                              *)
(***************************************************************************)
\* a call returned (it did not raise) and the caller is back outside run()
Completed(op) == pc = "idle" /\ ret.op = op /\ ~ret.raised

\* C1: after any sequence of step(), run() and reset() calls, the steering
\* angle of the current state and of every history entry lies within
\* [-max_steering_angle, +max_steering_angle], whatever the control signal was
C1_SteeringWithinLimit ==
    /\ Abs(state.steering_angle) <= params.max_steering_angle
    /\ \A i \in 1..Len(history) :
          Abs(history[i].steering_angle) <= params.max_steering_angle

\* a first step whose control signal alone would carry the steering angle past
\* the limit, and the angle recorded at the limit
C1_Saturated ==
    /\ Completed("step")
    /\ Len(history) = 1
    /\ Quot(ret.value[1].control_signal * dt, TimeScale) > params.max_steering_angle
    /\ state.steering_angle = params.max_steering_angle
    /\ history[1].steering_angle = params.max_steering_angle

\* C2: a step() that fails (update_state rejects the time step) leaves the
\* simulation as it was before the call: state, history, current_time and the
\* whole of the controller (integral, prev_error, prev_time, first_call)
C2_FailedStepChangesNothing ==
    [][nfail' # nfail =>
          /\ state' = state
          /\ history' = history
          /\ current_time' = current_time
          /\ controller' = controller]_vars

\* C3: when a step fails inside run(), run() does not raise: it stops at that
\* iteration and returns the diagnostics of the steps completed before it, in
\* order, and the history entries and the state those steps produced are kept
C3_RunStopsAtFailedStep ==
    [][(pc = "run" /\ nfail' # nfail) =>
          /\ pc' = "idle"
          /\ ret'.op = "run" /\ ~ret'.raised
          /\ ret'.value = results
          /\ history' = history
          /\ state' = state
          /\ Len(history') = entry_len + Len(ret'.value)
          /\ \A i \in 1..Len(ret'.value) :
                ret'.value[i].state = ToDict(history'[entry_len + i])
          /\ ret'.value # <<>> => ToDict(state') = ret'.value[Len(ret'.value)].state]_vars

\* run() returned after a failed iteration with the diagnostics of a step that
\* completed before it: the time step is no longer positive, so the step was
\* made before the time step changed, and the steps made are fewer than the
\* duration asks for at the time step of construction (0.01 s, InitFault)
C3_PartialRun ==
    /\ Completed("run")
    /\ nfail >= 1
    /\ dt <= 0
    /\ Len(ret.value) >= 1
    /\ Len(ret.value) * 10 < ret.args[1]
    /\ Len(history) >= Len(ret.value)

\* C4: the history grows by exactly one entry on every successful step(),
\* inside run() too; no other operation changes it; only reset() empties it;
\* the entries it holds are never removed, reordered or replaced but by reset()
C4_HistoryGrowsByOne ==
    [][LET stepped == \/ pc = "run" /\ nfail' = nfail
                      \/ pc = "idle" /\ pc' = "idle" /\ ret'.op = "step" /\ ~ret'.raised
           cleared == pc = "idle" /\ pc' = "idle" /\ ret'.op = "reset" /\ ~ret'.raised
       IN /\ stepped => /\ Len(history') = Len(history) + 1
                        /\ SubSeq(history', 1, Len(history)) = history
          /\ cleared => history' = <<>>
          /\ (~stepped /\ ~cleared) => history' = history]_vars

\* a run() that appended to a history that already held entries
C4_SecondRun ==
    /\ Completed("run")
    /\ Len(ret.value) >= 1
    /\ Len(history) > Len(ret.value)

\* C5: for duration > 0 and no failed step, run() makes exactly
\* ceil(duration / dt) steps (the least n with n * dt >= duration), returns
\* that many diagnostics and appends that many history entries; duration 5 at
\* dt 0.01 gives 500 steps and duration 2 at dt 0.1 gives 20
C5_RunStepCount ==
    /\ [](RunSteps(5 * TimeScale, 10) = 500 /\ RunSteps(2 * TimeScale, 100) = 20)
    /\ [][(pc = "run" /\ pc' = "idle" /\ nfail' = nfail) =>
             /\ duration > 0
             /\ ret'.op = "run" /\ ~ret'.raised
             /\ Len(ret'.value) * dt >= duration
             /\ (Len(ret'.value) - 1) * dt < duration
             /\ Len(history') = entry_len + Len(ret'.value)]_vars

\* a run() over a duration that is not a multiple of the time step: 0.015 s
\* at 0.01 s, two steps
C5_RoundedUp ==
    /\ Completed("run")
    /\ nfail = 0
    /\ ret.args[1] = 15 /\ dt = 10
    /\ Len(ret.value) = 2
    /\ Len(history) >= 2

\* C6: after a successful reset(v?) the state is at time 0, the origin,
\* heading 0, steering 0 and angular velocity 0; the history is empty;
\* current_time and target_angle are 0; the controller's integral, previous
\* error and previous time are 0 and it awaits its first call, its gains as
\* they were; the velocity is v when given and the velocity of construction
\* otherwise, which no reset changes
C6_ResetPostcondition ==
    /\ [][initial_velocity' = initial_velocity]_vars
    /\ [][(pc = "idle" /\ pc' = "idle" /\ ret'.op = "reset" /\ ~ret'.raised) =>
             /\ state' = [time |-> 0, x |-> 0, y |-> 0,
                          velocity |-> IF ret'.args[1] = None THEN initial_velocity
                                       ELSE ret'.args[1][1],
                          heading |-> 0, steering_angle |-> 0,
                          angular_velocity |-> 0]
             /\ history' = <<>>
             /\ current_time' = 0
             /\ target_angle' = 0
             /\ controller'.integral = 0
             /\ controller'.prev_error = 0
             /\ controller'.prev_time = 0
             /\ controller'.first_call
             /\ controller'.kp = controller.kp
             /\ controller'.ki = controller.ki
             /\ controller'.kd = controller.kd]_vars

\* a reset() without a velocity, which restored the velocity of construction
C6_DefaultVelocityRestored ==
    /\ Completed("reset")
    /\ ret.args[1] = None
    /\ state.velocity = initial_velocity
    /\ initial_velocity \in Velocities
    /\ history = <<>>
    /\ controller.first_call

\* C7: after any sequence of compute() calls, with integral_limit >= 0, the
\* accumulator satisfies |integral| <= integral_limit
C7_IntegralWithinLimit ==
    Abs(controller.integral) <= controller.integral_limit

\* a compute() that left the accumulator at a positive limit
C7_IntegralAtLimit ==
    /\ Completed("compute")
    /\ controller.integral_limit > 0
    /\ Abs(controller.integral) = controller.integral_limit

\* C8: with friction_coefficient = 0, a nonzero steering angle of either sign
\* and a nonzero velocity that needs a turning force, check_slip_condition
\* reports can_turn = false and a utilization of 100
C8_NoFrictionNoTurn ==
    (/\ params.friction_coefficient = 0
     /\ state.steering_angle # 0
     /\ state.velocity # 0
     /\ CentripetalForce(params, state.velocity,
                         TurnRadius(params, state.steering_angle)) # 0)
    => CheckSlipCondition(params, state.velocity, state.steering_angle)
         = [can_turn |-> FALSE, utilization |-> 100]

\* every entry lies on one ray from the origin, that of the last entry
OnRayFromOrigin(h, last) ==
    \A i \in 1..Len(h) :
       /\ h[i].x * last.y - h[i].y * last.x = 0
       /\ h[i].x * last.x + h[i].y * last.y >= 0

\* C9: for a non-empty history whose path is not a straight ray from the
\* origin, the statistics report path_length >= total_distance
C9_PathLengthAtLeastDistance ==
    (history # <<>> /\ ~OnRayFromOrigin(history, history[Len(history)]))
    => SummaryStatistics(history, target_angle).path_length
         >= SummaryStatistics(history, target_angle).total_distance

\* C10: for a non-empty history of any length the window steady_state_error
\* is averaged over holds at least one sample, so that the statistic is the
\* mean of |error| over a non-empty tail of the history
C10_SteadyStateWindowNonEmpty ==
    history # <<>> =>
       /\ SteadyStateWindow(history, target_angle) # <<>>
       /\ SummaryStatistics(history, target_angle).steady_state_error # None

\* the sample i of the history and every sample at or after its time are
\* within 0.5 degrees of the target
SettledFrom(h, target, i) ==
    \A j \in 1..Len(h) :
       h[j].time >= h[i].time => Abs(target - h[j].steering_angle) <= AngleScale \div 2

\* C11: a non-null settling_time is the time of a history sample, every
\* sample at or after it is within 0.5 degrees of the target and no earlier
\* sample has that property; settling_time is null exactly when the error of
\* the last sample exceeds 0.5 degrees
C11_SettlingTimeEarliest ==
    history # <<>> =>
       LET t == SummaryStatistics(history, target_angle).settling_time
       IN /\ t = None <=>
                Abs(target_angle - history[Len(history)].steering_angle)
                   > AngleScale \div 2
          /\ t # None =>
                \E i \in 1..Len(history) :
                   /\ history[i].time = t[1]
                   /\ SettledFrom(history, target_angle, i)
                   /\ \A k \in 1..Len(history) :
                         history[k].time < t[1]
                            => ~SettledFrom(history, target_angle, k)

\* a history that settled at its third sample, after a first sample within
\* the threshold and a second one outside it
C11_SettledLate ==
    /\ Len(history) = 3
    /\ Abs(target_angle - history[1].steering_angle) <= AngleScale \div 2
    /\ Abs(target_angle - history[2].steering_angle) > AngleScale \div 2
    /\ SummaryStatistics(history, target_angle).settling_time = Some(history[3].time)

\* C12: history entries are independent snapshots: once a state is appended,
\* no later operation (further steps, an in-place change of the live state's
\* velocity) changes any field of that entry, for as long as the history
\* holds it
C12_HistoryEntriesFrozen ==
    [][\A i \in 1..Len(history) :
          i <= Len(history') => history'[i] = history[i]]_vars

\* the velocity of the live state was changed in place after its snapshot was
\* appended, and the snapshot still shows the velocity it was taken with
C12_LiveStateChanged ==
    /\ Completed("update_params")
    /\ history # <<>>
    /\ history[Len(history)].time = state.time
    /\ state.velocity = 50
    /\ history[Len(history)].velocity = 100

\* the angular velocity of a diagnostics record is velocity / turn_radius, or
\* 0 when the turn radius is the straight-line sentinel (reported as None)
KinematicRate(d) ==
    IF d.turn_radius = None THEN d.state.angular_velocity_rad = 0
    ELSE IF d.turn_radius[1] = 0
    THEN d.state.velocity = 0 /\ d.state.angular_velocity_rad = 0
    ELSE d.state.angular_velocity_rad
            = Quot(d.state.velocity * ((LenScale * TrigScale) \div VelScale),
                   d.turn_radius[1])

\* C13: whenever the diagnostics of a step report can_turn = true, the new
\* state's angular velocity equals velocity / turn_radius at the new
\* steering angle (0 when the turn radius is the straight-line sentinel)
C13_NoSlipKinematics ==
    \A i \in 1..Len(ret.value) :
       (ret.op \in {"step", "run"} /\ ret.value[i].can_turn)
          => KinematicRate(ret.value[i])

\* the state after n steps straight ahead: no steering, no rotation, and
\* velocity * n * dt along the x axis
StraightAfter(st, n, step) ==
    /\ st.steering_angle = 0
    /\ st.angular_velocity = 0
    /\ st.heading = 0
    /\ st.y = 0
    /\ st.x * VelScale * TimeScale = st.velocity * n * step * LenScale

\* C14: with a target angle of 0 on a freshly constructed or reset
\* simulation, after every step the steering angle, the angular velocity and
\* the heading are 0 and after n steps the position is (velocity * n * dt, 0);
\* dt = 0.1 and duration = 2 end at (velocity * 2, 0) after 20 steps
C14_StraightLine ==
    /\ StraightAfter(state, Len(history), dt)
    /\ \A i \in 1..Len(history) : StraightAfter(history[i], i, dt)
    /\ RunSteps(2 * TimeScale, 100) = 20
    /\ StraightAfter(StateAfterRun(params, DefaultController, initial_velocity,
                                   100, 2 * TimeScale, 0), 20, 100)
    /\ StateAfterRun(params, DefaultController, initial_velocity,
                     100, 2 * TimeScale, 0).x = 2 * initial_velocity * (LenScale \div VelScale)

\* three steps straight ahead at 10 m/s made by a run() after a reset
C14_ThreeStepsAhead ==
    /\ Completed("run")
    /\ Len(ret.value) = 3
    /\ Len(history) = 3
    /\ state.velocity = 100
    /\ state.x = 300
    /\ controller.prev_time > 0

\* C15: compute() never fails because of the time argument: the first call
\* after construction or reset uses a step of 0.01 s whatever the time; a
\* later call with time - prev_time <= 0 uses 0.01 s too, warns, and still
\* returns an output within the output limit and records the error and the
\* time as the previous ones
C15_ComputeTimeFallback ==
    [][ret'.op = "compute" =>
          LET error == ret'.args[1] - ret'.args[2]
              time == ret'.args[3]
              fallback == controller.first_call \/ time - controller.prev_time <= 0
          IN /\ ~ret'.raised
             /\ (ret'.error = "warning") <=>
                   (~controller.first_call /\ time - controller.prev_time <= 0)
             /\ Abs(ret'.value[1]) <= controller.output_limit
             /\ controller'.prev_error = error
             /\ controller'.prev_time = time
             /\ ~controller'.first_call
             /\ fallback =>
                   controller'.integral
                      = Clip(controller.integral + error * 10,
                             -controller.integral_limit, controller.integral_limit)]_vars

\* a compute() that was handed a time not after the previous one, warned and
\* recorded that time
C15_WarnedOfTime ==
    /\ Completed("compute")
    /\ ret.error = "warning"
    /\ ret.args[1] # ret.args[2]
    /\ controller.prev_time = ret.args[3]
    /\ controller.integral # 0

\* C16: on an empty history get_summary_statistics returns a record in which
\* every field of the record of a non-empty history is present (path_length
\* and final_steering_angle included), with a zero or null value
C16_EmptyRecordComplete ==
    history = <<>> =>
       /\ DOMAIN SummaryStatistics(<<state>>, target_angle)
             \subseteq DOMAIN SummaryStatistics(history, target_angle)
       /\ \A f \in {"total_time", "total_steps", "total_distance", "path_length",
                   "final_heading_deg", "final_steering_angle",
                   "max_steering_error", "rms_steering_error", "overshoot"} :
             SummaryStatistics(history, target_angle)[f] = 0
       /\ SummaryStatistics(history, target_angle).final_position = <<0, 0>>
       /\ SummaryStatistics(history, target_angle).settling_time = None
       /\ SummaryStatistics(history, target_angle).mean_steering_error = Some(0)
       /\ SummaryStatistics(history, target_angle).steady_state_error = Some(0)

\* C17: a rejected call is a no-op: run() with duration <= 0 and reset() with
\* a negative resulting velocity each raise and leave state, history, the
\* controller, current_time and target_angle as they were
C17_RejectedCallChangesNothing ==
    [][(pc = "idle" /\ pc' = "idle" /\ ret'.op \in {"run", "reset"}) =>
          LET rejected ==
                 IF ret'.op = "run" THEN ret'.args[1] <= 0
                 ELSE IF ret'.args[1] = None THEN initial_velocity < 0
                 ELSE ret'.args[1][1] < 0
          IN rejected =>
                /\ ret'.raised
                /\ ret'.error = "ValueError"
                /\ state' = state
                /\ history' = history
                /\ controller' = controller
                /\ current_time' = current_time
                /\ target_angle' = target_angle]_vars

\* a run() with duration 0 was rejected on a simulation that had stepped,
\* and the target of the rejected call is not the simulation's
C17_RunRejected ==
    /\ pc = "idle"
    /\ ret.op = "run" /\ ret.raised
    /\ ret.args[1] <= 0
    /\ ret.args[2] # target_angle
    /\ history # <<>>
    /\ controller.integral # 0

\* C18: the heading of the live state and of every history entry lies in the
\* half-open interval (-Pi, Pi]: the value -Pi itself never occurs.
C18_HeadingHalfOpen ==
    /\ state.heading > -Pi
    /\ state.heading <= Pi
    /\ \A i \in 1..Len(history) :
           history[i].heading > -Pi /\ history[i].heading <= Pi

\* the heading stays in the closed interval [-Pi, Pi]
C18_HeadingClosed ==
    /\ state.heading >= -Pi
    /\ state.heading <= Pi
    /\ \A i \in 1..Len(history) :
           history[i].heading >= -Pi /\ history[i].heading <= Pi

\* the steering rates update_state is handed: the controller's output limits
\* and no rate at all
SteeringRates == {-500 * AngleScale, 0, 500 * AngleScale}

\* what update_state owes its caller for one call on st with time step step,
\* r being the outcome of the call
UpdateStateContract(st, step, r) ==
    IF step <= 0
    THEN ~r.ok /\ r.input = st
    ELSE /\ r.ok
         /\ r.state.time = st.time + step
         /\ r.state.velocity = st.velocity
         /\ r.input = st

\* C19: update_state with dt <= 0 fails and leaves the state it was handed
\* unchanged; with dt > 0 it returns a state whose time is state.time + dt and
\* whose velocity is state.velocity, and the state it was handed is unchanged.
\* Stated of the call step() would make next, at every reachable state and
\* time step of the simulation and for every steering rate.
C19_UpdateStateAllOrNothing ==
    \A rate \in SteeringRates :
        UpdateStateContract(state, dt, UpdateState(params, state, dt, rate))

\* a step() on a vehicle that has moved was refused for its time step
C19_RefusedAfterMoving ==
    /\ Len(history) > 0
    /\ state.time > 0
    /\ dt <= 0
    /\ pc = "idle"
    /\ ret.op = "step"
    /\ ret.raised

\* C20: a run() made on a simulation straight after its construction or
\* straight after a reset() that followed any calls returns the diagnostics
\* that depend on the parameters, the gains, the velocity, dt, the target and
\* the duration alone: those a newly constructed simulation returns
C20_RunDeterministic ==
    [][(pc = "run" /\ pc' = "idle" /\ ret.op \in {"init", "reset"} /\ ~ret.raised) =>
          /\ ret'.op = "run"
          /\ ~ret'.raised
          /\ ret'.value = FreshRun(params, controller, state.velocity, dt,
                                   duration, target_angle)]_vars

\* a run() towards a nonzero target on a simulation that was reset, about to
\* make the last of at least two iterations
C20_RunAfterReset ==
    /\ pc = "run"
    /\ ret.op = "reset"
    /\ ~ret.raised
    /\ target_angle # 0
    /\ steps >= 2
    /\ Len(results) = steps - 1

\* the verdict and the velocity limit of one diagnostics record agree: the
\* vehicle can turn exactly when its velocity is at most the safe velocity,
\* None being no limit
SlipAgreesWithLimit(d) ==
    d.can_turn <=> (d.max_safe_velocity = None
                      \/ d.state.velocity <= d.max_safe_velocity[1])

\* C21: in the diagnostics of every step, those step() returns and those
\* run() collects, can_turn is true if and only if the velocity is at most
\* max_safe_velocity, for steering angles of either sign
C21_SlipAgreesWithSafeVelocity ==
    /\ (Completed("step") => SlipAgreesWithLimit(ret.value[1]))
    /\ (Completed("run") =>
           \A i \in 1..Len(ret.value) : SlipAgreesWithLimit(ret.value[i]))
    /\ \A i \in 1..Len(results) : SlipAgreesWithLimit(results[i])

\* the same agreement for the steps that end at a steering angle >= 0
C21_AgreesWhenSteeringLeft ==
    /\ (Completed("step") =>
           (ret.value[1].state.steering_angle >= 0
              => SlipAgreesWithLimit(ret.value[1])))
    /\ \A i \in 1..Len(results) :
           results[i].state.steering_angle >= 0 => SlipAgreesWithLimit(results[i])

\* the friction utilization of one diagnostics record is a percentage
UtilizationIsPercentage(d) ==
    d.friction_utilization >= 0 /\ d.friction_utilization <= 100

\* C22: the utilization check_slip_condition returns, reported as
\* friction_utilization by every step, lies in [0, 100] for steering angles
\* of either sign
C22_UtilizationWithinPercent ==
    /\ (Completed("step") => UtilizationIsPercentage(ret.value[1]))
    /\ (Completed("run") =>
           \A i \in 1..Len(ret.value) : UtilizationIsPercentage(ret.value[i]))
    /\ \A i \in 1..Len(results) : UtilizationIsPercentage(results[i])

\* the utilization never exceeds 100, whatever its sign
C22_UtilizationAtMostHundred ==
    /\ (Completed("step") => ret.value[1].friction_utilization <= 100)
    /\ \A i \in 1..Len(results) : results[i].friction_utilization <= 100

\* C23: on every step of a simulation built around a fresh controller the
\* controller awaits its first call exactly when no step was made since the
\* construction or the last reset; on every other step it is called with a
\* time exactly dt after the time of the previous call, so it does not
\* substitute its default step and its effective step is the simulation's dt
C23_ControllerStepIsSimulationDt ==
    [][Len(history') = Len(history) + 1 =>
          /\ controller.first_call <=> history = <<>>
          /\ ~ComputeWarns(controller, state.time)
          /\ ~controller.first_call =>
                /\ state.time = controller.prev_time + dt
                /\ EffectiveDt(controller, state.time) = dt
          /\ controller'.prev_time = state.time
          /\ state'.time = state.time + dt]_vars

\* a run() on a simulation that was reset has made two steps, the second of
\* them with a controller that had been called since the reset
C23_SecondStepAfterReset ==
    /\ pc = "run"
    /\ ret.op = "reset"
    /\ ~ret.raised
    /\ Len(results) >= 2
    /\ Len(history) = Len(results)
    /\ ~controller.first_call
    /\ controller.prev_time = state.time - dt

\* C24: an update_params request answered with an error leaves the velocity
\* of the state, the mass, the friction coefficient, the gravity and the
\* gains of the controller as they were
C24_RejectedUpdateChangesNothing ==
    [][(pc = "idle" /\ ret'.op = "update_params" /\ ret'.raised) =>
          /\ state'.velocity = state.velocity
          /\ params'.mass = params.mass
          /\ params'.friction_coefficient = params.friction_coefficient
          /\ params'.gravity = params.gravity
          /\ controller'.kp = controller.kp
          /\ controller'.ki = controller.ki
          /\ controller'.kd = controller.kd]_vars

\* a rejected update_params request leaves the controller's gains as they were
C24_RejectedUpdateKeepsGains ==
    [][(pc = "idle" /\ ret'.op = "update_params" /\ ret'.raised) =>
          /\ controller'.kp = controller.kp
          /\ controller'.ki = controller.ki
          /\ controller'.kd = controller.kd]_vars

=============================================================================
